---- MODULE Spec2Model ----
(***************************************************************************)
(* GLE three-phase syntax validator (src/gle_parser.py): the lexer, the    *)
(* cursor primitives of ParserBase, the three recursive-descent phases and *)
(* the driver run_gle, as a state machine.  Recursion is flattened into an *)
(* explicit control stack per parser object; every loop iteration and      *)
(* every call is one step.                                                 *)
(***************************************************************************)
EXTENDS Integers, Sequences, FiniteSets, TLC

VARIABLES code, lx, tokens, pc, result, par, alone

vars == <<code, lx, tokens, pc, result, par, alone>>

(***************************************************************************)
(* Source text: a sequence of one-character strings.                       *)
(***************************************************************************)
Digits == {"0", "1", "2", "3", "4", "5", "6", "7", "8", "9"}

Letters == {"a", "b", "c", "d", "e", "f", "g", "h", "i", "j", "k", "l", "m",
            "n", "o", "p", "q", "r", "s", "t", "u", "v", "w", "x", "y", "z", "_"}

WordChars == Letters \cup Digits

SkipChars == {" ", "\t", "\r"}

KEYWORDS == {"int", "if", "else", "while", "return"}

\* value.upper() on the five keywords
Upper(v) ==
    CASE v = "int" -> "INT"
      [] v = "if" -> "IF"
      [] v = "else" -> "ELSE"
      [] v = "while" -> "WHILE"
      [] v = "return" -> "RETURN"

Token(type, value, line, column) ==
    [type |-> type, value |-> value, line |-> line, column |-> column]

\* c[i], 0-based, "" past the end
CharAt(c, i) == IF i < Len(c) THEN c[i + 1] ELSE ""

\* the text c[i..j-1] as a string
RECURSIVE Text(_, _, _)
Text(c, i, j) == IF i >= j THEN "" ELSE c[i + 1] \o Text(c, i + 1, j)

\* end of the longest run of characters of S starting at i
RECURSIVE RunEnd(_, _, _)
RunEnd(c, i, S) == IF i < Len(c) /\ c[i + 1] \in S THEN RunEnd(c, i + 1, S) ELSE i

\* index of the '"' closing a string opened at i - 1, or -1 (no '"' before a newline)
RECURSIVE StringEnd(_, _)
StringEnd(c, i) ==
    IF i >= Len(c) \/ c[i + 1] = "\n" THEN -1
    ELSE IF c[i + 1] = "\"" THEN i + 1
    ELSE StringEnd(c, i + 1)

\* master_pat at offset i: the first alternative of TOKEN_SPEC that matches
MatchAt(c, i) ==
    LET ch == CharAt(c, i)
        two == ch \o CharAt(c, i + 1)
    IN  IF ch \in Digits THEN [kind |-> "NUMBER", end |-> RunEnd(c, i, Digits)]
        ELSE IF ch \in Letters THEN [kind |-> "ID", end |-> RunEnd(c, i, WordChars)]
        ELSE IF ch = "\"" /\ StringEnd(c, i + 1) # -1
             THEN [kind |-> "STRING", end |-> StringEnd(c, i + 1)]
        ELSE IF two \in {"==", "!=", "<=", ">="} THEN [kind |-> "OP", end |-> i + 2]
        ELSE IF ch \in {"+", "-", "*", "/", "<", ">", "="} THEN [kind |-> "OP", end |-> i + 1]
        ELSE IF ch = "(" THEN [kind |-> "LPAREN", end |-> i + 1]
        ELSE IF ch = ")" THEN [kind |-> "RPAREN", end |-> i + 1]
        ELSE IF ch = "{" THEN [kind |-> "LBRACE", end |-> i + 1]
        ELSE IF ch = "}" THEN [kind |-> "RBRACE", end |-> i + 1]
        ELSE IF ch = ";" THEN [kind |-> "SEMICOL", end |-> i + 1]
        ELSE IF ch = "," THEN [kind |-> "COMMA", end |-> i + 1]
        ELSE IF ch = "\n" THEN [kind |-> "NEWLINE", end |-> i + 1]
        ELSE IF ch \in SkipChars THEN [kind |-> "SKIP", end |-> RunEnd(c, i, SkipChars)]
        ELSE [kind |-> "MISMATCH", end |-> i + 1]

\* a lex without its raise: the unexpected character becomes a token
Unexpected_Never(kind) == FALSE

\* the match kind at which lex raises SyntaxError
Unexpected(kind) == kind = "MISMATCH"

\* the loop variables of lex before the first match
LexStart == [i |-> 0, line_num |-> 1, line_start |-> 0]

\* one iteration of the loop of lex: the match at offset i and what it does to
\* line_num, line_start and tokens
LexMatch(c, i, line_num, line_start, toks) ==
    LET mo == MatchAt(c, i)
        value == Text(c, i, mo.end)
        col == i - line_start + 1
        go == [raised |-> FALSE, i |-> mo.end, line_num |-> line_num,
               line_start |-> line_start, toks |-> toks, value |-> value, column |-> col]
    IN  IF mo.kind = "NEWLINE"
        THEN [go EXCEPT !.line_num = line_num + 1, !.line_start = mo.end]
        ELSE IF mo.kind = "SKIP" THEN go
        ELSE IF mo.kind = "ID" /\ value \in KEYWORDS
        THEN [go EXCEPT !.toks = Append(toks, Token(Upper(value), value, line_num, col))]
        ELSE IF Unexpected(mo.kind) THEN [go EXCEPT !.raised = TRUE]
        ELSE [go EXCEPT !.toks = Append(toks, Token(mo.kind, value, line_num, col))]

(***************************************************************************)
(* ParseError and the cursor primitives of ParserBase.                     *)
(***************************************************************************)
None == "None"

ParseError(message, line, column, phase, hint) ==
    [message |-> message, line |-> line, column |-> column, phase |-> phase, hint |-> hint]

NoError == ParseError("", 0, 0, "", None)

\* a frame of the control stack: the code position and the locals live across steps
Frame(lbl) == [lbl |-> lbl, tok |-> -1, depth |-> 0, required |-> FALSE, ctx_word |-> None]

\* a parser object that was not constructed yet
Idle == [st |-> "idle", pos |-> 0, stack |-> <<>>, err |-> NoError]

\* ParserBase.__init__, entering parse()
NewParser(lbl) == [st |-> "run", pos |-> 0, stack |-> <<Frame(lbl)>>, err |-> NoError]

\* self.current
Cur(p) == tokens[p.pos + 1]

TokAt(i) == tokens[i + 1]

\* an advance without the test for the last token
advance_Unguarded(p) == [p EXCEPT !.pos = @ + 1]

advance(p) == IF p.pos < Len(tokens) - 1 THEN [p EXCEPT !.pos = @ + 1] ELSE p

\* raise ParseError(...): the exception unwinds every frame of the phase
Raise(p, message, line, column, phase, hint) ==
    [p EXCEPT !.st = "err", !.stack = <<>>,
              !.err = ParseError(message, line, column, phase, hint)]

\* the boolean match(*types) returns
matches(p, types) == Cur(p).type \in types

match(p, types) == IF matches(p, types) THEN advance(p) ELSE p

\* an expect that consumes the offending token before it raises
expect_Consuming(p, ttype, phase, message, hint) ==
    IF p.st = "err" THEN p
    ELSE IF Cur(p).type = ttype THEN advance(p)
    ELSE Raise(advance(p), message, Cur(p).line, Cur(p).column, phase, hint)

\* expect(); a parser that already raised stays as it is (the exception propagates)
expect(p, ttype, phase, message, hint) ==
    IF p.st = "err" THEN p
    ELSE IF Cur(p).type = ttype THEN advance(p)
    ELSE Raise(p, message, Cur(p).line, Cur(p).column, phase, hint)

Top(p) == Head(p.stack)

\* return from the running function
Return(p) == IF p.st = "err" THEN p ELSE [p EXCEPT !.stack = Tail(@)]

\* continue the running function at frames fs (calls first, then its own continuation)
Goto(p, fs) == IF p.st = "err" THEN p ELSE [p EXCEPT !.stack = fs \o Tail(@)]

\* call: fs run before the running function resumes at its current position
Call(p, fs) == IF p.st = "err" THEN p ELSE [p EXCEPT !.stack = fs \o @]

\* parse() returned normally
Finish(p) == [p EXCEPT !.st = "ok", !.stack = <<>>]

At(k, lbl) == par[k].st = "run" /\ par[k].stack # <<>> /\ Top(par[k]).lbl = lbl

\* a step that marks the tokens it has passed in the shared list
Set_Consuming(k, p) ==
    /\ par' = [par EXCEPT ![k] = p]
    /\ tokens' = IF p.pos > par[k].pos
                  THEN [tokens EXCEPT ![par[k].pos + 1].type = "SKIP"]
                  ELSE tokens
    /\ UNCHANGED <<code, lx, pc, result, alone>>

Set(k, p) ==
    /\ par' = [par EXCEPT ![k] = p]
    /\ UNCHANGED <<code, lx, tokens, pc, result, alone>>

(***************************************************************************)
(* Phase 1: GLOBAL                                                         *)
(***************************************************************************)
PHASE1 == "GLOBAL"

P1_parse ==
    /\ At(1, "P1.parse")
    /\ Set(1, IF Cur(par[1]).type # "EOF"
              THEN Call(par[1], <<Frame("P1.parse_function")>>)
              ELSE Finish(par[1]))

\* the header of the older snapshot (src/phase1.py): the tokens between the
\* parentheses are passed over
Phase1Header_AnyParams(p) ==
    LET p1 == expect(p, "INT", "GLOBAL", "Expected 'int' at start of function definition.",
                     "Did you forget the return type?")
        p2 == expect(p1, "ID", "GLOBAL", "Expected function name after 'int'.",
                     "Add a valid identifier name for the function.")
        p3 == expect(p2, "LPAREN", "GLOBAL", "Expected '(' after function name.",
                     "Add '(' to start the parameter list (even if it's empty).")
        stop == CHOOSE j \in p3.pos..(Len(tokens) - 1) :
                    /\ TokAt(j).type \in {"RPAREN", "EOF"}
                    /\ \A m \in p3.pos..(j - 1) : TokAt(m).type \notin {"RPAREN", "EOF"}
    IN  expect(IF p3.st = "err" THEN p3 ELSE [p3 EXCEPT !.pos = stop], "RPAREN", "GLOBAL",
               "Expected ')' after '('.", "Close the parameter list with ')'.")

Phase1Header(p) ==
    LET p1 == expect(p, "INT", PHASE1, "Expected 'int' at start of function definition.",
                     "Did you forget the return type?")
        p2 == expect(p1, "ID", PHASE1, "Expected function name after 'int'.",
                     "Add a valid identifier name for the function.")
        p3 == expect(p2, "LPAREN", PHASE1, "Expected '(' after function name.",
                     "Add '(' to start the parameter list (even if it's empty).")
    IN  expect(p3, "RPAREN", PHASE1, "Expected ')' after '('.",
               "Close the parameter list with ')'.")

P1_parse_function ==
    /\ At(1, "P1.parse_function")
    /\ LET p4 == Phase1Header(par[1])
           p5 == expect(p4, "LBRACE", PHASE1, "Expected '{' to start function body.",
                        "Add '{' to begin the function body.")
       IN  Set(1, Goto(p5, <<[Frame("P1.scan") EXCEPT !.tok = p4.pos, !.depth = 1]>>))

\* a scan that does not count the '{' nested in the body
Phase1ScanStep_NoNesting(p) ==
    advance([p EXCEPT !.stack[1].depth = IF Cur(p).type = "RBRACE" THEN @ - 1 ELSE @])

\* one iteration of the depth-counted scan of the body
Phase1ScanStep(p) ==
    LET d == Top(p).depth
        d1 == IF Cur(p).type = "LBRACE" THEN d + 1
              ELSE IF Cur(p).type = "RBRACE" THEN d - 1
              ELSE d
    IN  advance([p EXCEPT !.stack[1].depth = d1])

P1_scan ==
    /\ At(1, "P1.scan")
    /\ Top(par[1]).depth > 0 /\ Cur(par[1]).type # "EOF"
    /\ Set(1, Phase1ScanStep(par[1]))

\* the diagnostic of the open body placed where the scan stopped
Phase1ScanEnd_AtCurrent(p) ==
    IF Top(p).depth # 0
    THEN Raise(p, "Function body not properly closed with '}'.",
               Cur(p).line, Cur(p).column, "GLOBAL",
               "Ensure every '{' has a matching '}'.")
    ELSE Return(p)

\* after the scan: a body that is still open is reported at lbrace_tok
Phase1ScanEnd(p) ==
    LET lbrace_tok == TokAt(Top(p).tok)
    IN  IF Top(p).depth # 0
        THEN Raise(p, "Function body not properly closed with '}'.",
                   lbrace_tok.line, lbrace_tok.column, PHASE1,
                   "Ensure every '{' has a matching '}'.")
        ELSE Return(p)

P1_scan_end ==
    /\ At(1, "P1.scan")
    /\ ~(Top(par[1]).depth > 0 /\ Cur(par[1]).type # "EOF")
    /\ Set(1, Phase1ScanEnd(par[1]))

Phase1Step == P1_parse \/ P1_parse_function \/ P1_scan \/ P1_scan_end

(***************************************************************************)
(* Phase 2: LOCAL                                                          *)
(***************************************************************************)
PHASE2 == "LOCAL"

P2_parse ==
    /\ At(2, "P2.parse")
    /\ Set(2, IF Cur(par[2]).type # "EOF"
              THEN Call(par[2], <<Frame("P2.parse_function")>>)
              ELSE Finish(par[2]))

P2_parse_function ==
    /\ At(2, "P2.parse_function")
    /\ LET p1 == expect(par[2], "INT", PHASE2,
                        "Expected 'int' at start of function definition.",
                        "Did you forget the return type?")
           p2 == expect(p1, "ID", PHASE2, "Expected function name after 'int'.", None)
           p3 == expect(p2, "LPAREN", PHASE2, "Expected '(' after function name.", None)
           p4 == expect(p3, "RPAREN", PHASE2, "Expected ')' to close parameter list.", None)
       IN  Set(2, Goto(p4, <<Frame("P2.parse_block")>>))

P2_parse_block ==
    /\ At(2, "P2.parse_block")
    /\ LET p1 == expect(par[2], "LBRACE", PHASE2, "Expected '{' to start a block.",
                        "Add '{' to begin the block after this statement.")
       IN  Set(2, Goto(p1, <<Frame("P2.block_loop")>>))

\* while self.current.type not in ("RBRACE", "EOF"): self.parse_statement()
P2_block_loop ==
    /\ At(2, "P2.block_loop")
    /\ Cur(par[2]).type \notin {"RBRACE", "EOF"}
    /\ Set(2, Call(par[2], <<Frame("P2.parse_statement")>>))

P2_block_end ==
    /\ At(2, "P2.block_loop")
    /\ Cur(par[2]).type \in {"RBRACE", "EOF"}
    /\ LET p1 == expect(par[2], "RBRACE", PHASE2, "Expected '}' to close the block.",
                        "Make sure all opened '{' blocks are closed with '}'.")
       IN  Set(2, Return(p1))

P2_parse_statement ==
    /\ At(2, "P2.parse_statement")
    /\ LET t == Cur(par[2]).type
       IN  Set(2, Goto(par[2],
                  IF t = "IF" THEN <<Frame("P2.parse_if")>>
                  ELSE IF t = "WHILE" THEN <<Frame("P2.parse_while")>>
                  ELSE IF t = "RETURN" THEN <<Frame("P2.parse_return")>>
                  ELSE IF t = "LBRACE" THEN <<Frame("P2.parse_block")>>
                  ELSE <<Frame("P2.skip_until_semicolon")>>))

\* the head of the older snapshot (src/phase2.py): no check for an empty condition
Phase2CondHead_NoEmptyCheck(p, word, emptyHint, scanLbl) ==
    LET kw == p.pos
        p1 == advance(p)
    IN  IF ~matches(p1, {"LPAREN"})
        THEN Raise(p1, "Expected '(' after '" \o word \o "'.",
                   TokAt(kw).line, TokAt(kw).column, "LOCAL",
                   "Write '" \o word \o " (<condition>) { ... }'.")
        ELSE Goto(match(p1, {"LPAREN"}), <<[Frame(scanLbl) EXCEPT !.tok = kw, !.depth = 1]>>)

\* the head of parse_if / parse_while up to the depth-counted scan; word is 'if' or 'while'
Phase2CondHead(p, word, emptyHint, scanLbl) ==
    LET kw == p.pos
        p1 == advance(p)
    IN  IF ~matches(p1, {"LPAREN"})
        THEN Raise(p1, "Expected '(' after '" \o word \o "'.",
                   TokAt(kw).line, TokAt(kw).column, PHASE2,
                   "Write '" \o word \o " (<condition>) { ... }'.")
        ELSE LET p2 == match(p1, {"LPAREN"})
             IN  IF Cur(p2).type = "RPAREN"
                 THEN Raise(p2, "Empty condition in '" \o word \o "'.",
                            Cur(p2).line, Cur(p2).column, PHASE2, emptyHint)
                 ELSE Goto(p2, <<[Frame(scanLbl) EXCEPT !.tok = kw, !.depth = 1]>>)

P2_parse_if ==
    /\ At(2, "P2.parse_if")
    /\ Set(2, Phase2CondHead(par[2], "if", "Add a condition like 'if (x > 0)'.", "P2.if_scan"))

\* the scan of the older snapshot (src/phase2.py): the first ')' ends the condition
Phase2ScanStep_FirstRparen(p) ==
    advance([p EXCEPT !.stack[1].depth = IF Cur(p).type = "RPAREN" THEN 0 ELSE @])

\* one iteration of the depth-counted scan to the matching ')'
Phase2ScanStep(p) ==
    LET d == Top(p).depth
        d1 == IF Cur(p).type = "LPAREN" THEN d + 1
              ELSE IF Cur(p).type = "RPAREN" THEN d - 1
              ELSE d
    IN  advance([p EXCEPT !.stack[1].depth = d1])

\* the unclosed condition reported where the scan stopped, as expect() would
Phase2CondTail_AtCurrent(p, word, next) ==
    IF Top(p).depth # 0
    THEN Raise(p, "Missing ')' to close '" \o word \o "' condition.",
               Cur(p).line, Cur(p).column, "LOCAL", "Ensure every '(' has a matching ')'.")
    ELSE IF Cur(p).type # "LBRACE"
    THEN Raise(p, "Expected '{' after '" \o word \o "' condition.",
               Cur(p).line, Cur(p).column, "LOCAL",
               "Write '" \o word \o " (cond) { ... }'.")
    ELSE Goto(p, next)

\* after the scan: the diagnostics of an unclosed condition and of a missing block
Phase2CondTail(p, word, next) ==
    LET kw == TokAt(Top(p).tok)
    IN  IF Top(p).depth # 0
        THEN Raise(p, "Missing ')' to close '" \o word \o "' condition.",
                   kw.line, kw.column, PHASE2, "Ensure every '(' has a matching ')'.")
        ELSE IF Cur(p).type # "LBRACE"
        THEN Raise(p, "Expected '{' after '" \o word \o "' condition.",
                   Cur(p).line, Cur(p).column, PHASE2,
                   "Write '" \o word \o " (cond) { ... }'.")
        ELSE Goto(p, next)

P2_if_scan ==
    /\ At(2, "P2.if_scan")
    /\ Top(par[2]).depth > 0 /\ Cur(par[2]).type # "EOF"
    /\ Set(2, Phase2ScanStep(par[2]))

P2_if_scan_end ==
    /\ At(2, "P2.if_scan")
    /\ ~(Top(par[2]).depth > 0 /\ Cur(par[2]).type # "EOF")
    /\ Set(2, Phase2CondTail(par[2], "if", <<Frame("P2.parse_block"), Frame("P2.if_else")>>))

\* the parse_if of the older snapshot (src/phase2.py): no else branch
P2_if_else_Ignored ==
    /\ At(2, "P2.if_else")
    /\ Set(2, Return(par[2]))

\* after the block of an if: the optional else
P2_if_else ==
    /\ At(2, "P2.if_else")
    /\ LET p == par[2]
           p1 == advance(p)
       IN  Set(2, IF Cur(p).type # "ELSE" THEN Return(p)
                  ELSE IF Cur(p1).type = "IF" THEN Goto(p1, <<Frame("P2.parse_if")>>)
                  ELSE IF Cur(p1).type # "LBRACE"
                  THEN Raise(p1, "Expected '{' after 'else'.",
                             Cur(p1).line, Cur(p1).column, PHASE2, "Write 'else { ... }'.")
                  ELSE Goto(p1, <<Frame("P2.parse_block")>>))

P2_parse_while ==
    /\ At(2, "P2.parse_while")
    /\ Set(2, Phase2CondHead(par[2], "while", "Add a loop condition like 'while (i < n)'.",
                             "P2.while_scan"))

P2_while_scan ==
    /\ At(2, "P2.while_scan")
    /\ Top(par[2]).depth > 0 /\ Cur(par[2]).type # "EOF"
    /\ Set(2, Phase2ScanStep(par[2]))

P2_while_scan_end ==
    /\ At(2, "P2.while_scan")
    /\ ~(Top(par[2]).depth > 0 /\ Cur(par[2]).type # "EOF")
    /\ Set(2, Phase2CondTail(par[2], "while", <<Frame("P2.parse_block")>>))

P2_parse_return ==
    /\ At(2, "P2.parse_return")
    /\ LET ret == par[2].pos
           p1 == advance(par[2])
       IN  Set(2, IF Cur(p1).type = "SEMICOL" THEN Return(advance(p1))
                  ELSE Goto(p1, <<[Frame("P2.skip_until_semicolon") EXCEPT
                                     !.required = TRUE, !.tok = ret,
                                     !.ctx_word = "return"]>>))

\* a skip loop that does not stop at the end of input
SkipStops_NoEof == {"SEMICOL", "RBRACE"}

\* the token kinds at which skip_until_semicolon stops
SkipStops == {"SEMICOL", "EOF", "RBRACE"}

P2_skip ==
    /\ At(2, "P2.skip_until_semicolon")
    /\ Cur(par[2]).type \notin SkipStops
    /\ Set(2, advance(par[2]))

\* a skip that requires its ';' after every kind of statement
Phase2SkipEnd_Strict(p) ==
    LET f == Top(p)
        t == IF f.tok # -1 THEN TokAt(f.tok) ELSE Cur(p)
    IN  IF Cur(p).type = "SEMICOL" THEN Return(advance(p))
        ELSE Raise(p, "Missing ';' after " \o f.ctx_word \o " statement.",
                   t.line, t.column, "LOCAL",
                   "Terminate the " \o f.ctx_word \o " statement with ';'.")

\* a skip that never requires its ';'
Phase2SkipEnd_Lenient(p) ==
    IF Cur(p).type = "SEMICOL" THEN Return(advance(p)) ELSE Return(p)

\* after the skip loop: the ';' is consumed; without one only a required ';' raises
Phase2SkipEnd(p) ==
    LET f == Top(p)
        t == IF f.tok # -1 THEN TokAt(f.tok) ELSE Cur(p)
    IN  IF Cur(p).type = "SEMICOL" THEN Return(advance(p))
        ELSE IF f.required
        THEN Raise(p, "Missing ';' after " \o f.ctx_word \o " statement.",
                   t.line, t.column, PHASE2,
                   "Terminate the " \o f.ctx_word \o " statement with ';'.")
        ELSE Return(p)

P2_skip_end ==
    /\ At(2, "P2.skip_until_semicolon")
    /\ Cur(par[2]).type \in SkipStops
    /\ Set(2, Phase2SkipEnd(par[2]))

Phase2Step ==
    \/ P2_parse \/ P2_parse_function \/ P2_parse_block \/ P2_block_loop \/ P2_block_end
    \/ P2_parse_statement \/ P2_parse_if \/ P2_if_scan \/ P2_if_scan_end \/ P2_if_else
    \/ P2_parse_while \/ P2_while_scan \/ P2_while_scan_end
    \/ P2_parse_return \/ P2_skip \/ P2_skip_end

(***************************************************************************)
(* Phase 3: EXPRESSION                                                     *)
(***************************************************************************)
PHASE3 == "EXPRESSION"

P3_parse ==
    /\ At(3, "P3.parse")
    /\ Set(3, IF Cur(par[3]).type # "EOF"
              THEN Call(par[3], <<Frame("P3.parse_function")>>)
              ELSE Finish(par[3]))

P3_parse_function ==
    /\ At(3, "P3.parse_function")
    /\ LET p1 == expect(par[3], "INT", PHASE3,
                        "Expected 'int' at start of function definition.", None)
           p2 == expect(p1, "ID", PHASE3, "Expected function name after 'int'.", None)
           p3 == expect(p2, "LPAREN", PHASE3, "Expected '(' after function name.", None)
           p4 == expect(p3, "RPAREN", PHASE3, "Expected ')' after '('.", None)
       IN  Set(3, Goto(p4, <<Frame("P3.parse_block")>>))

P3_parse_block ==
    /\ At(3, "P3.parse_block")
    /\ LET p1 == expect(par[3], "LBRACE", PHASE3, "Expected '{' to start a block.", None)
       IN  Set(3, Goto(p1, <<Frame("P3.block_loop")>>))

P3_block_loop ==
    /\ At(3, "P3.block_loop")
    /\ Cur(par[3]).type \notin {"RBRACE", "EOF"}
    /\ Set(3, Call(par[3], <<Frame("P3.parse_statement")>>))

P3_block_end ==
    /\ At(3, "P3.block_loop")
    /\ Cur(par[3]).type \in {"RBRACE", "EOF"}
    /\ LET p1 == expect(par[3], "RBRACE", PHASE3, "Expected '}' to close the block.", None)
       IN  Set(3, Return(p1))

P3_parse_statement ==
    /\ At(3, "P3.parse_statement")
    /\ LET p == par[3]
           t == Cur(p).type
       IN  Set(3, IF t = "IF" THEN Goto(p, <<Frame("P3.parse_if")>>)
                  ELSE IF t = "WHILE" THEN Goto(p, <<Frame("P3.parse_while")>>)
                  ELSE IF t = "RETURN" THEN Goto(p, <<Frame("P3.parse_return")>>)
                  ELSE IF t = "LBRACE" THEN Goto(p, <<Frame("P3.parse_block")>>)
                  ELSE IF t = "SEMICOL" THEN Return(advance(p))
                  ELSE Goto(p, <<Frame("P3.parse_expression"), Frame("P3.stmt_semicol")>>))

\* the expect that follows an expression statement
P3_stmt_semicol ==
    /\ At(3, "P3.stmt_semicol")
    /\ Set(3, Return(expect(par[3], "SEMICOL", PHASE3, "Missing ';' after expression.",
                            "End the statement with ';'.")))

P3_parse_if ==
    /\ At(3, "P3.parse_if")
    /\ LET p1 == expect(advance(par[3]), "LPAREN", PHASE3, "Expected '(' after 'if'.",
                        "Write 'if (<condition>) { ... }'.")
       IN  Set(3, Goto(p1, <<Frame("P3.parse_expression"), Frame("P3.if_rparen")>>))

\* after a condition: its ')' and the '{' that must follow
Phase3CondTail(p, word, closeHint, next) ==
    LET p1 == expect(p, "RPAREN", PHASE3, "Expected ')' after " \o word \o " condition.",
                     closeHint)
    IN  IF p1.st = "err" THEN p1
        ELSE IF Cur(p1).type # "LBRACE"
        THEN Raise(p1, "Expected '{' after '" \o word \o "' condition.",
                   Cur(p1).line, Cur(p1).column, PHASE3,
                   "Write '" \o word \o " (cond) { ... }'.")
        ELSE Goto(p1, next)

P3_if_rparen ==
    /\ At(3, "P3.if_rparen")
    /\ Set(3, Phase3CondTail(par[3], "if", "Close the condition: 'if (x > 0)'.",
                             <<Frame("P3.parse_block"), Frame("P3.if_else")>>))

P3_if_else ==
    /\ At(3, "P3.if_else")
    /\ LET p == par[3]
           p1 == advance(p)
       IN  Set(3, IF Cur(p).type # "ELSE" THEN Return(p)
                  ELSE IF Cur(p1).type = "IF" THEN Goto(p1, <<Frame("P3.parse_if")>>)
                  ELSE IF Cur(p1).type # "LBRACE"
                  THEN Raise(p1, "Expected '{' after 'else'.",
                             Cur(p1).line, Cur(p1).column, PHASE3, "Write 'else { ... }'.")
                  ELSE Goto(p1, <<Frame("P3.parse_block")>>))

P3_parse_while ==
    /\ At(3, "P3.parse_while")
    /\ LET p1 == expect(advance(par[3]), "LPAREN", PHASE3, "Expected '(' after 'while'.",
                        "Write 'while (<condition>) { ... }'.")
       IN  Set(3, Goto(p1, <<Frame("P3.parse_expression"), Frame("P3.while_rparen")>>))

P3_while_rparen ==
    /\ At(3, "P3.while_rparen")
    /\ Set(3, Phase3CondTail(par[3], "while", "Close the condition: 'while (i < n)'.",
                             <<Frame("P3.parse_block")>>))

P3_parse_return ==
    /\ At(3, "P3.parse_return")
    /\ LET p1 == advance(par[3])
       IN  Set(3, IF Cur(p1).type = "SEMICOL" THEN Return(advance(p1))
                  ELSE Goto(p1, <<Frame("P3.parse_expression"), Frame("P3.return_semicol")>>))

P3_return_semicol ==
    /\ At(3, "P3.return_semicol")
    /\ Set(3, Return(expect(par[3], "SEMICOL", PHASE3, "Missing ';' after return value.",
                            "Write 'return value;'.")))

\* Expression grammar
P3_parse_expression ==
    /\ At(3, "P3.parse_expression")
    /\ Set(3, Goto(par[3], <<Frame("P3.parse_equality")>>))

\* an equality level that also takes '=' as a binary operator
EqualityOps_WithAssign == {"==", "!=", "="}

\* the operators of each binary level
EqualityOps == {"==", "!="}

ComparisonOps == {"<", ">", "<=", ">="}

TermOps == {"+", "-"}

FactorOps == {"*", "/"}

UnaryOps == {"+", "-"}

IsOp(p, ops) == Cur(p).type = "OP" /\ Cur(p).value \in ops

\* entry of a binary level: the left operand, then the operator loop
BinaryEnter(lbl, operand, loop) ==
    /\ At(3, lbl)
    /\ Set(3, Goto(par[3], <<Frame(operand), Frame(loop)>>))

\* the operator loop: an operator of the level, then the right operand
BinaryLoop(loop, ops, operand) ==
    /\ At(3, loop)
    /\ Set(3, IF IsOp(par[3], ops)
              THEN Call(advance(par[3]), <<Frame(operand)>>)
              ELSE Return(par[3]))

P3_parse_equality == BinaryEnter("P3.parse_equality", "P3.parse_comparison", "P3.equality_loop")

P3_equality_loop == BinaryLoop("P3.equality_loop", EqualityOps, "P3.parse_comparison")

P3_parse_comparison == BinaryEnter("P3.parse_comparison", "P3.parse_term", "P3.comparison_loop")

P3_comparison_loop == BinaryLoop("P3.comparison_loop", ComparisonOps, "P3.parse_term")

P3_parse_term == BinaryEnter("P3.parse_term", "P3.parse_factor", "P3.term_loop")

P3_term_loop == BinaryLoop("P3.term_loop", TermOps, "P3.parse_factor")

P3_parse_factor == BinaryEnter("P3.parse_factor", "P3.parse_unary", "P3.factor_loop")

P3_factor_loop == BinaryLoop("P3.factor_loop", FactorOps, "P3.parse_unary")

P3_parse_unary ==
    /\ At(3, "P3.parse_unary")
    /\ Set(3, IF IsOp(par[3], UnaryOps)
              THEN Goto(advance(par[3]), <<Frame("P3.parse_unary")>>)
              ELSE Goto(par[3], <<Frame("P3.parse_primary")>>))

\* the message of the ParseError parse_primary raises at tok
ExpectedExpression(tok) ==
    "Expected an expression here, but found '" \o tok.value \o "' (" \o tok.type \o ")."

P3_parse_primary ==
    /\ At(3, "P3.parse_primary")
    /\ LET p == par[3]
           tok == Cur(p)
       IN  Set(3, IF tok.type = "NUMBER" THEN Return(advance(p))
                  ELSE IF tok.type = "ID" THEN Return(advance(p))
                  ELSE IF tok.type = "LPAREN"
                  THEN Goto(advance(p), <<Frame("P3.parse_expression"),
                                          Frame("P3.primary_rparen")>>)
                  ELSE Raise(p, ExpectedExpression(tok),
                             tok.line, tok.column, PHASE3,
                             "Use a variable, number, or '( expression )'."))

P3_primary_rparen ==
    /\ At(3, "P3.primary_rparen")
    /\ Set(3, Return(expect(par[3], "RPAREN", PHASE3, "Expected ')' after expression.",
                            "Every '(' must be closed with ')'.")))

Phase3Step ==
    \/ P3_parse \/ P3_parse_function \/ P3_parse_block \/ P3_block_loop \/ P3_block_end
    \/ P3_parse_statement \/ P3_stmt_semicol \/ P3_parse_if \/ P3_if_rparen \/ P3_if_else
    \/ P3_parse_while \/ P3_while_rparen \/ P3_parse_return \/ P3_return_semicol
    \/ P3_parse_expression \/ P3_parse_equality \/ P3_equality_loop
    \/ P3_parse_comparison \/ P3_comparison_loop \/ P3_parse_term \/ P3_term_loop
    \/ P3_parse_factor \/ P3_factor_loop \/ P3_parse_unary \/ P3_parse_primary
    \/ P3_primary_rparen

(***************************************************************************)
(* Source texts.                                                           *)
(***************************************************************************)
\* int main() { return 0; }   (spec example 1)
ExReturn0 ==
    <<"i", "n", "t", " ", "m", "a", "i", "n", "(", ")", " ", "{", " ", "r", "e", "t", "u",
      "r", "n", " ", "0", ";", " ", "}">>

\* int main() { if (x > 0 { return 1; } }   (spec example 2)
ExIfNoRparen ==
    <<"i", "n", "t", " ", "m", "a", "i", "n", "(", ")", " ", "{", " ", "i", "f", " ", "(",
      "x", " ", ">", " ", "0", " ", "{", " ", "r", "e", "t", "u", "r", "n", " ", "1", ";",
      " ", "}", " ", "}">>

\* int main() { return }   (spec example 3)
ExReturnNoSemi ==
    <<"i", "n", "t", " ", "m", "a", "i", "n", "(", ")", " ", "{", " ", "r", "e", "t", "u",
      "r", "n", " ", "}">>

\* int f() { x = 1 + ; }   (spec example 4)
ExAssign ==
    <<"i", "n", "t", " ", "f", "(", ")", " ", "{", " ", "x", " ", "=", " ", "1", " ", "+",
      " ", ";", " ", "}">>

\* int f() {   (spec example 5)
ExOpenBody ==
    <<"i", "n", "t", " ", "f", "(", ")", " ", "{">>

\* int f() { if () { } }
ExEmptyIf ==
    <<"i", "n", "t", " ", "f", "(", ")", " ", "{", " ", "i", "f", " ", "(", ")", " ", "{",
      " ", "}", " ", "}">>

\* int f() { while () { } }
ExEmptyWhile ==
    <<"i", "n", "t", " ", "f", "(", ")", " ", "{", " ", "w", "h", "i", "l", "e", " ", "(",
      ")", " ", "{", " ", "}", " ", "}">>

\* int f() { return; }
ExBareReturn ==
    <<"i", "n", "t", " ", "f", "(", ")", " ", "{", " ", "r", "e", "t", "u", "r", "n", ";",
      " ", "}">>

\* int f() { if (+) { } }
ExBadIfCond ==
    <<"i", "n", "t", " ", "f", "(", ")", " ", "{", " ", "i", "f", " ", "(", "+", ")", " ",
      "{", " ", "}", " ", "}">>

\* int f() { while (x <) { } }
ExBadWhileCond ==
    <<"i", "n", "t", " ", "f", "(", ")", " ", "{", " ", "w", "h", "i", "l", "e", " ", "(",
      "x", " ", "<", ")", " ", "{", " ", "}", " ", "}">>

\* int f() { }\nint g()\n  { { } if (x) {
ExSecondOpen ==
    <<"i", "n", "t", " ", "f", "(", ")", " ", "{", " ", "}", "\n", "i", "n", "t", " ", "g",
      "(", ")", "\n", " ", " ", "{", " ", "{", " ", "}", " ", "i", "f", " ", "(", "x", ")",
      " ", "{">>

\* int f() {\n  if (x == 1) { return x; } else if ((x)) { } else { y + 2; }\n  while (x < 1 * -2) { ; { } }\n}
ExFull ==
    <<"i", "n", "t", " ", "f", "(", ")", " ", "{", "\n", " ", " ", "i", "f", " ", "(", "x",
      " ", "=", "=", " ", "1", ")", " ", "{", " ", "r", "e", "t", "u", "r", "n", " ", "x",
      ";", " ", "}", " ", "e", "l", "s", "e", " ", "i", "f", " ", "(", "(", "x", ")", ")",
      " ", "{", " ", "}", " ", "e", "l", "s", "e", " ", "{", " ", "y", " ", "+", " ", "2",
      ";", " ", "}", "\n", " ", " ", "w", "h", "i", "l", "e", " ", "(", "x", " ", "<", " ",
      "1", " ", "*", " ", "-", "2", ")", " ", "{", " ", ";", " ", "{", " ", "}", " ", "}",
      "\n", "}">>

\* int f() { if (x) { } else return; }
ExElseNoBlock ==
    <<"i", "n", "t", " ", "f", "(", ")", " ", "{", " ", "i", "f", " ", "(", "x", ")", " ",
      "{", " ", "}", " ", "e", "l", "s", "e", " ", "r", "e", "t", "u", "r", "n", ";", " ",
      "}">>

\* int f() { while x { } }
ExWhileNoParen ==
    <<"i", "n", "t", " ", "f", "(", ")", " ", "{", " ", "w", "h", "i", "l", "e", " ", "x",
      " ", "{", " ", "}", " ", "}">>

\* int f() { if x { } }
ExIfNoParen ==
    <<"i", "n", "t", " ", "f", "(", ")", " ", "{", " ", "i", "f", " ", "x", " ", "{", " ",
      "}", " ", "}">>

\* int f() { while (x { } }
ExWhileNoRparen ==
    <<"i", "n", "t", " ", "f", "(", ")", " ", "{", " ", "w", "h", "i", "l", "e", " ", "(",
      "x", " ", "{", " ", "}", " ", "}">>

\* int f() { while (x) ; }
ExWhileNoBlock ==
    <<"i", "n", "t", " ", "f", "(", ")", " ", "{", " ", "w", "h", "i", "l", "e", " ", "(",
      "x", ")", " ", ";", " ", "}">>

\* int f() { if (x) ; }
ExIfNoBlock ==
    <<"i", "n", "t", " ", "f", "(", ")", " ", "{", " ", "i", "f", " ", "(", "x", ")", " ",
      ";", " ", "}">>

\* int f() { return (x != 1) / 2; }
ExReturnValue ==
    <<"i", "n", "t", " ", "f", "(", ")", " ", "{", " ", "r", "e", "t", "u", "r", "n", " ",
      "(", "x", " ", "!", "=", " ", "1", ")", " ", "/", " ", "2", ";", " ", "}">>

\* int f() { "s" , ; }
ExString ==
    <<"i", "n", "t", " ", "f", "(", ")", " ", "{", " ", "\"", "s", "\"", " ", ",", " ",
      ";", " ", "}">>

\* int f() { @ }
ExBadChar ==
    <<"i", "n", "t", " ", "f", "(", ")", " ", "{", " ", "@", " ", "}">>

\* int ( {\n  x ! }
ExBadCharAfterError ==
    <<"i", "n", "t", " ", "(", " ", "{", "\n", " ", " ", "x", " ", "!", " ", "}">>

\* int f() { "s }
ExOpenString ==
    <<"i", "n", "t", " ", "f", "(", ")", " ", "{", " ", "\"", "s", " ", "}">>

\* int f() { while (; { else) { } if (( } )x) { } else if ( return ) { } }
ExOpaqueCond ==
    <<"i", "n", "t", " ", "f", "(", ")", " ", "{", " ", "w", "h", "i", "l", "e", " ", "(",
      ";", " ", "{", " ", "e", "l", "s", "e", ")", " ", "{", " ", "}", " ", "i", "f", " ",
      "(", "(", " ", "}", " ", ")", "x", ")", " ", "{", " ", "}", " ", "e", "l", "s", "e",
      " ", "i", "f", " ", "(", " ", "r", "e", "t", "u", "r", "n", " ", ")", " ", "{", " ",
      "}", " ", "}">>

\* int f(int a) { }
ExParams ==
    <<"i", "n", "t", " ", "f", "(", "i", "n", "t", " ", "a", ")", " ", "{", " ", "}">>

\* the empty source text
ExEmpty == <<>>

\* int f() { { } if }\nint g() { }
ExTwoFunctions ==
    <<"i", "n", "t", " ", "f", "(", ")", " ", "{", " ", "{", " ", "}", " ", "i", "f", " ",
      "}", "\n", "i", "n", "t", " ", "g", "(", ")", " ", "{", " ", "}">>

\* int f() { } x
ExTrailing ==
    <<"i", "n", "t", " ", "f", "(", ")", " ", "{", " ", "}", " ", "x">>

Examples ==
    {ExReturn0, ExIfNoRparen, ExReturnNoSemi, ExAssign, ExOpenBody,
     ExEmptyIf, ExEmptyWhile, ExBareReturn, ExBadIfCond, ExBadWhileCond,
     ExSecondOpen, ExFull, ExElseNoBlock, ExWhileNoParen, ExIfNoParen,
     ExWhileNoRparen, ExWhileNoBlock, ExIfNoBlock, ExReturnValue, ExString,
     ExBadChar, ExBadCharAfterError, ExOpenString, ExOpaqueCond,
     ExParams, ExEmpty, ExTwoFunctions, ExTrailing}

\* the tokens a generated function body is made of
BodyTokens ==
    {<<"{">>, <<"}">>, <<"(">>, <<")">>, <<";">>, <<"x">>, <<"+">>, <<"=">>, <<"i", "f">>,
     <<"e", "l", "s", "e">>, <<"w", "h", "i", "l", "e">>, <<"r", "e", "t", "u", "r", "n">>, <<"@">>}

\* the statement fragments a generated function body is made of
BodyFragments ==
    {<<"r", "e", "t", "u", "r", "n", ";">>, <<"r", "e", "t", "u", "r", "n", " ", "x", ";">>,
     <<"r", "e", "t", "u", "r", "n", " ", "x">>, <<"i", "f", " ", "(", "x", ")", " ", "{">>,
     <<"i", "f", " ", "(", "(", "x", ")", ")", " ", "{">>,
     <<"i", "f", " ", "(", "x", " ", "+", ")", " ", "{">>,
     <<"w", "h", "i", "l", "e", " ", "(", "x", " ", "<", " ", "1", ")", " ", "{">>, <<"}">>,
     <<"}", " ", "e", "l", "s", "e", " ", "{">>,
     <<"}", " ", "e", "l", "s", "e", " ", "i", "f", " ", "(", "x", ")", " ", "{">>,
     <<"x", ";">>, <<"r", "e", "t", "u", "r", "n">>, <<"x">>}

\* longest generated body, in tokens
MaxBody == 3

\* longest generated body, in statement fragments
MaxStmts == 2

FnHead == <<"i", "n", "t", " ", "f", "(", ")", " ", "{">>

\* the pieces of a body, each after one blank
RECURSIVE Spaced(_)
Spaced(ss) == IF ss = <<>> THEN <<>> ELSE <<" ">> \o Head(ss) \o Spaced(Tail(ss))

\* one function whose body is at most n pieces of S, with and without its closing brace
Family(S, n) ==
    { FnHead \o Spaced(b) \o tail :
        b \in UNION { [1..m -> S] : m \in 0..n }, tail \in {<<>>, <<" ", "}">>} }

TokenInputs == Examples \cup Family(BodyTokens, MaxBody)

StmtInputs == Examples \cup Family(BodyFragments, MaxStmts)

(***************************************************************************)
(* The driver run_gle.                                                     *)
(***************************************************************************)
Pending == [kind |-> "pending"]

InitWith(S) ==
    /\ code \in S
    /\ lx = LexStart
    /\ tokens = <<>>
    /\ pc = "lex"
    /\ result = Pending
    /\ par = [k \in 1..3 |-> Idle]
    /\ alone = 0

Init == InitWith(TokenInputs)

PhasePc(k) == CASE k = 1 -> "phase1" [] k = 2 -> "phase2" [] k = 3 -> "phase3"

ParseLabel(k) == CASE k = 1 -> "P1.parse" [] k = 2 -> "P2.parse" [] k = 3 -> "P3.parse"

\* lex(code), one match of master_pat per step; a SyntaxError leaves run_gle
lex_match ==
    /\ pc = "lex"
    /\ lx.i < Len(code)
    /\ LET m == LexMatch(code, lx.i, lx.line_num, lx.line_start, tokens)
       IN  IF m.raised
           THEN /\ result' = [kind |-> "SyntaxError", value |-> m.value,
                              line |-> lx.line_num, column |-> m.column]
                /\ pc' = "done"
                /\ tokens' = <<>>
                /\ UNCHANGED lx
           ELSE /\ lx' = [i |-> m.i, line_num |-> m.line_num, line_start |-> m.line_start]
                /\ tokens' = m.toks
                /\ UNCHANGED <<pc, result>>
    /\ UNCHANGED <<code, par, alone>>

\* the EOF token lex appends after its loop
EofToken(line_num) == Token("EOF", "", line_num, 1)

\* the end of lex: run_gle has its token list
lex_return ==
    /\ pc = "lex"
    /\ lx.i >= Len(code)
    /\ tokens' = Append(tokens, EofToken(lx.line_num))
    /\ pc' = "phase1"
    /\ UNCHANGED <<code, lx, result, par, alone>>

\* PhaseNParser(tokens).parse() is entered
RunPhase(k) ==
    /\ pc = PhasePc(k)
    /\ par[k].st = "idle"
    /\ par' = [par EXCEPT ![k] = NewParser(ParseLabel(k))]
    /\ UNCHANGED <<code, lx, tokens, pc, result, alone>>

\* where run_gle goes on when phase k returned
AfterPhase(k) == IF k = 3 THEN "done" ELSE PhasePc(k + 1)

\* run_gle without the early return: a failed phase is followed by the next one
PhaseRaised_GoesOn(k) ==
    /\ pc = PhasePc(k)
    /\ par[k].st = "err"
    /\ pc' = AfterPhase(k)
    /\ result' = [kind |-> "ParseError", e |-> par[k].err]
    /\ UNCHANGED <<code, lx, tokens, par, alone>>

\* parse() returned: the next try block, or return None
PhaseReturned(k) ==
    /\ pc = PhasePc(k)
    /\ par[k].st = "ok"
    /\ pc' = AfterPhase(k)
    /\ result' = IF pc' = "done" THEN [kind |-> "None"] ELSE result
    /\ UNCHANGED <<code, lx, tokens, par, alone>>

\* except ParseError as e: return e
PhaseRaised(k) ==
    /\ pc = PhasePc(k)
    /\ par[k].st = "err"
    /\ pc' = "done"
    /\ result' = [kind |-> "ParseError", e |-> par[k].err]
    /\ UNCHANGED <<code, lx, tokens, par, alone>>

\* after run_gle: phase k constructed and run on its own over the same tokens
RunAlone(k) ==
    /\ pc = "done"
    /\ result.kind # "SyntaxError"
    /\ alone = k - 1
    /\ k > 1 => par[k - 1].st \in {"ok", "err"}
    /\ par' = [par EXCEPT ![k] = NewParser(ParseLabel(k))]
    /\ alone' = k
    /\ UNCHANGED <<code, lx, tokens, pc, result>>

Driver == lex_match \/ lex_return \/ \E k \in 1..3 : RunPhase(k) \/ PhaseReturned(k) \/ PhaseRaised(k)

Next == Driver \/ Phase1Step \/ Phase2Step \/ Phase3Step

Spec == Init /\ [][Next]_vars

InitStmt == InitWith(StmtInputs)

NextAlone == Next \/ \E k \in 1..3 : RunAlone(k)

SpecAlone == InitStmt /\ [][NextAlone]_vars

\* longest body, in statement fragments, of the inputs the phases share
MaxTogether == 1

\* the inputs over which the three phases are run side by side
TogetherInputs ==
    {ExReturn0, ExReturnNoSemi, ExAssign, ExEmptyIf, ExOpenBody, ExParams, ExBadChar, ExEmpty}
        \cup Family(BodyFragments, MaxTogether)

InitTogether == InitWith(TogetherInputs)

\* the three parser objects constructed over the one token list
RunTogether ==
    /\ pc = "phase1"
    /\ \A k \in 1..3 : par[k].st = "idle"
    /\ par' = [k \in 1..3 |-> NewParser(ParseLabel(k))]
    /\ pc' = "together"
    /\ UNCHANGED <<code, lx, tokens, result, alone>>

\* what a phase ended with: accept or its diagnostic, and its cursor
Outcome(p) == [st |-> p.st, err |-> p.err, pos |-> p.pos]

\* every phase ended: their outcomes are kept for the comparison
Collect ==
    /\ pc = "together"
    /\ \A k \in 1..3 : par[k].st \in {"ok", "err"}
    /\ result' = [kind |-> "together", outcome |-> [k \in 1..3 |-> Outcome(par[k])]]
    /\ pc' = "done"
    /\ UNCHANGED <<code, lx, tokens, par, alone>>

\* the steps of the three phases in any order, then each phase on its own
NextTogether ==
    \/ lex_match \/ lex_return \/ RunTogether \/ Collect
    \/ Phase1Step \/ Phase2Step \/ Phase3Step
    \/ \E k \in 1..3 : RunAlone(k)

SpecTogether == InitTogether /\ [][NextTogether]_vars

(***************************************************************************)
(* Properties.                                                             *)
(***************************************************************************)
Phases == 1..3

Finished(k) == par[k].st \in {"ok", "err"}

\* lex returned the token list
Lexed == pc \notin {"lex"} /\ result.kind # "SyntaxError"

\* the harness ran run_gle and then every phase on its own
AloneDone == alone = 3 /\ Finished(3)

\* number of tokens of a kind among the first n
Count(S, n) == Cardinality({j \in 1..n : tokens[j].type \in S})

\* open brackets left unclosed after the first n tokens
Depth(open, close, n) == Count({open}, n) - Count({close}, n)

Balanced(open, close) ==
    /\ \A n \in 1..Len(tokens) : Depth(open, close, n) >= 0
    /\ Depth(open, close, Len(tokens)) = 0

BraceBalanced == Balanced("LBRACE", "RBRACE")

ParenBalanced == Balanced("LPAREN", "RPAREN")

HasToken(types) == \E i \in 1..Len(tokens) : tokens[i].type \in types

\* token i is the first token of a statement of a function body
IsStatementStart(i) ==
    /\ i > 1
    /\ Depth("LBRACE", "RBRACE", i - 1) >= 1
    /\ tokens[i - 1].type \in {"LBRACE", "SEMICOL", "RBRACE"}
    /\ tokens[i].type \notin {"RBRACE", "EOF"}
    /\ ~(tokens[i - 1].type = "RBRACE" /\ tokens[i].type = "ELSE")

ReservedLed ==
    \A i \in 1..Len(tokens) : IsStatementStart(i) => tokens[i].type \in {"IF", "WHILE", "RETURN"}

\* C1: run_gle runs the phases in the order 1, 2, 3: a phase is entered only after
\* the one before it accepted, no phase is entered after one raised, the value
\* returned is the diagnostic of the phase that raised, and None is returned
\* exactly when all three phases accepted.
C1_PhaseOrder ==
    /\ \A k \in 2..3 : par[k].st # "idle" => par[k - 1].st = "ok"
    /\ \A k \in Phases : par[k].st = "err" => \A j \in (k + 1)..3 : par[j].st = "idle"
    /\ Cardinality({k \in Phases : par[k].st = "run"}) <= 1
    /\ pc = "done" /\ result.kind = "ParseError" =>
          \E k \in Phases : /\ par[k].st = "err"
                            /\ result.e = par[k].err
                            /\ \A j \in 1..(k - 1) : par[j].st = "ok"
    /\ pc = "done" /\ result.kind # "SyntaxError" =>
          (result.kind = "None" <=> \A k \in Phases : par[k].st = "ok")

\* a run in which phase 1 accepted and phase 2 raised: phase 3 never started
C1_Witness ==
    /\ pc = "done"
    /\ par[1].st = "ok" /\ par[2].st = "err" /\ par[3].st = "idle"
    /\ result.kind = "ParseError" /\ result.e.phase = PHASE2

\* C2: on a token list with balanced braces and parentheses whose statements all
\* begin with if, while or return, run_gle returns None exactly when Phase3Parser,
\* run on its own over the same tokens, accepts.
C2_SuccessIffPhase3 ==
    AloneDone /\ BraceBalanced /\ ParenBalanced /\ ReservedLed =>
        (result.kind = "None" <=> par[3].st = "ok")

\* a balanced, reserved-word-led input with an if over a nested parenthesised
\* condition, accepted by phase 3 on its own
C2_Witness ==
    /\ AloneDone /\ BraceBalanced /\ ParenBalanced /\ ReservedLed
    /\ HasToken({"IF"})
    /\ \E i \in 1..(Len(tokens) - 1) : tokens[i].type = "LPAREN" /\ tokens[i + 1].type = "LPAREN"
    /\ par[3].st = "ok"

\* C3: when the braces of the token list are not balanced (a body's '{' is never
\* closed, or the numbers of '{' and '}' differ), phases 2 and 3 are never entered
\* and run_gle returns a diagnostic tagged GLOBAL.
C3_ImbalanceIsGlobal ==
    Lexed /\ ~BraceBalanced =>
        /\ par[2].st = "idle" /\ par[3].st = "idle"
        /\ pc = "done" => result.kind = "ParseError" /\ result.e.phase = PHASE1

\* a finished run on a function whose body holds a nested, closed block but is
\* itself left open
C3_Witness ==
    /\ pc = "done" /\ Lexed
    /\ Count({"LBRACE"}, Len(tokens)) = 2 /\ Count({"RBRACE"}, Len(tokens)) = 1
    /\ par[1].st = "err" /\ par[1].err.message = "Function body not properly closed with '}'."
    /\ result.kind = "ParseError"

\* the source position of a token, and of a diagnostic
PosOf(t) == <<t.line, t.column>>

ErrPos(e) == <<e.line, e.column>>

\* the first token of a kind (and, for operators, of a lexeme)
FirstToken(type, value) ==
    tokens[CHOOSE i \in 1..Len(tokens) :
              /\ tokens[i].type = type /\ tokens[i].value = value
              /\ \A j \in 1..(i - 1) : ~(tokens[j].type = type /\ tokens[j].value = value)]

\* run_gle returned the ParseError of a phase with this message at this position
Returned(phase, message, pos) ==
    /\ result.kind = "ParseError"
    /\ result.e.phase = phase
    /\ result.e.message = message
    /\ ErrPos(result.e) = pos

\* C4 as stated: on `int f() { x = 1 + ; }` phases 1 and 2 accept and phase 3
\* raises parse_primary's "expected an expression" diagnostic at the ';'.
C4_Original ==
    pc = "done" /\ code = ExAssign =>
        /\ par[1].st = "ok" /\ par[2].st = "ok"
        /\ Returned(PHASE3, ExpectedExpression(FirstToken("SEMICOL", ";")),
                    PosOf(FirstToken("SEMICOL", ";")))

\* C4, amended: on `int f() { x = 1 + ; }` phases 1 and 2 accept and phase 3
\* raises the "Missing ';' after expression." diagnostic of parse_statement at
\* the '=' token, which no level of the expression grammar consumes.
C4_MissingSemicolonAtAssign ==
    pc = "done" /\ code = ExAssign =>
        /\ par[1].st = "ok" /\ par[2].st = "ok" /\ par[3].st = "err"
        /\ Returned(PHASE3, "Missing ';' after expression.", PosOf(FirstToken("OP", "=")))
        /\ result.e.hint = "End the statement with ';'."

\* the run on `int f() { x = 1 + ; }` ended with phase 3 stopped at the '='
C4_Witness ==
    /\ pc = "done" /\ code = ExAssign
    /\ result.kind = "ParseError"
    /\ Cur(par[3]).value = "=" /\ par[3].st = "err"

\* the '{' that follows the first `if (` of the token list
BraceAfterIf ==
    tokens[CHOOSE i \in 1..Len(tokens) :
              /\ tokens[i].type = "LBRACE"
              /\ \E j \in 1..(i - 1) : tokens[j].type = "IF"
              /\ \A k \in 1..(i - 1) : tokens[k].type = "LBRACE" =>
                                          \A j \in 1..(k - 1) : tokens[j].type # "IF"]

MissingRparenIf == "Missing ')' to close 'if' condition."

\* C5 as stated: on `int main() { if (x > 0 { return 1; } }` phase 1 accepts and
\* phase 2 raises the LOCAL "Missing ')'" diagnostic at the '{' after the condition.
C5_Original ==
    pc = "done" /\ code = ExIfNoRparen =>
        /\ par[1].st = "ok"
        /\ Returned(PHASE2, MissingRparenIf, PosOf(BraceAfterIf))

\* C5, amended: phase 1 accepts and phase 2 raises the LOCAL "Missing ')'"
\* diagnostic at the `if` keyword of the unterminated condition; in every run the
\* "Missing ')'" diagnostic of an if is placed at an `if` token.
C5_MissingRparenAtIf ==
    /\ pc = "done" /\ code = ExIfNoRparen =>
          /\ par[1].st = "ok" /\ par[2].st = "err" /\ par[3].st = "idle"
          /\ Returned(PHASE2, MissingRparenIf, PosOf(FirstToken("IF", "if")))
    /\ pc = "done" /\ result.kind = "ParseError" /\ result.e.message = MissingRparenIf =>
          /\ result.e.phase = PHASE2
          /\ \E i \in 1..Len(tokens) :
                tokens[i].type = "IF" /\ ErrPos(result.e) = PosOf(tokens[i])

\* the run on `int main() { if (x > 0 { return 1; } }` ended with phase 2's scan at EOF
C5_Witness ==
    /\ pc = "done" /\ code = ExIfNoRparen
    /\ result.kind = "ParseError" /\ result.e.message = MissingRparenIf
    /\ Cur(par[2]).type = "EOF"

EmptyConditionMessages == {"Empty condition in 'if'.", "Empty condition in 'while'."}

\* the token list begins with the tokens of a function head and these kinds
BodyStartsWith(ts) ==
    LET want == <<"INT", "ID", "LPAREN", "RPAREN", "LBRACE">> \o ts
    IN  /\ Len(tokens) >= Len(want)
        /\ \A i \in 1..Len(want) : tokens[i].type = want[i]

\* the first statement of the first function is an if / while with an empty condition
StartsWithEmptyCondition ==
    \E kw \in {"IF", "WHILE"} : BodyStartsWith(<<kw, "LPAREN", "RPAREN">>)

\* the first ')' after the first `if` or `while`
ConditionRparen ==
    tokens[CHOOSE i \in 1..Len(tokens) :
              /\ tokens[i].type = "RPAREN"
              /\ \E j \in 1..(i - 1) : tokens[j].type \in {"IF", "WHILE"}
              /\ \A k \in 1..(i - 1) : tokens[k].type = "RPAREN" =>
                                          \A j \in 1..(k - 1) : tokens[j].type \notin {"IF", "WHILE"}]

StartsWithReturnRbrace == BodyStartsWith(<<"RETURN", "RBRACE">>)

\* C7: `return;` in a function body is accepted by each phase run on its own; a
\* `return` directly followed by '}' is rejected by phase 2 and by phase 3, each
\* run on its own, at that statement, while phase 1 accepts `int main() { return }`
\* and never stops in a function whose body is such a statement.
C7_BareReturn ==
    /\ AloneDone /\ code = ExBareReturn => \A k \in Phases : par[k].st = "ok"
    /\ AloneDone /\ code = ExReturnNoSemi =>
          /\ par[1].st = "ok"
          /\ par[2].st = "err" /\ par[2].err.message = "Missing ';' after return statement."
          /\ par[3].st = "err"
    /\ AloneDone /\ StartsWithReturnRbrace =>
          /\ par[2].st = "err" /\ par[2].err.message = "Missing ';' after return statement."
          /\ ErrPos(par[2].err) = PosOf(tokens[6])
          /\ par[3].st = "err" /\ par[3].err.message = ExpectedExpression(tokens[7])
          /\ ErrPos(par[3].err) = PosOf(tokens[7])
          /\ par[1].pos >= 7

\* every phase ran on its own over `int main() { return }`
C7_Witness ==
    /\ AloneDone /\ code = ExReturnNoSemi
    /\ par[1].st = "ok" /\ par[2].st = "err" /\ par[3].st = "err"

BodyNotClosed == "Function body not properly closed with '}'."

\* the '{' that opens the last function body: the last '{' at nesting depth 0
OpeningBrace ==
    tokens[CHOOSE i \in 1..Len(tokens) :
              /\ tokens[i].type = "LBRACE" /\ Depth("LBRACE", "RBRACE", i - 1) = 0
              /\ \A j \in (i + 1)..Len(tokens) :
                    ~(tokens[j].type = "LBRACE" /\ Depth("LBRACE", "RBRACE", j - 1) = 0)]

\* C8: whenever phase 1's scan of a function body ends at EOF with depth still
\* positive, the diagnostic carries the line and column of the '{' that opened
\* that body, also for a later function and for a body with nested braces.
C8_OpenBodyAtOpeningBrace ==
    par[1].st = "err" /\ par[1].err.message = BodyNotClosed =>
        /\ Cur(par[1]).type = "EOF"
        /\ ErrPos(par[1].err) = PosOf(OpeningBrace)
        /\ par[1].err.phase = PHASE1

\* the second function of the input, on its third line, is left open after a
\* nested block
C8_Witness ==
    /\ code = ExSecondOpen
    /\ par[1].st = "err" /\ par[1].err.message = BodyNotClosed
    /\ par[1].err.line = 3 /\ Cur(par[1]).line = 3 /\ Cur(par[1]).type = "EOF"

\* the characters some alternative of TOKEN_SPEC other than MISMATCH matches alone
PatternChars ==
    Letters \cup Digits \cup SkipChars \cup
    {"\n", "+", "-", "*", "/", "<", ">", "=", "(", ")", "{", "}", ";", ","}

Quotes == {i \in 1..Len(code) : code[i] = "\""}

\* the source text holds a character no lexical pattern matches
HasUnmatchable ==
    \/ Cardinality(Quotes) = 1
    \/ /\ Quotes = {}
       /\ \E i \in 1..Len(code) :
             \/ code[i] \notin PatternChars \cup {"!"}
             \/ code[i] = "!" /\ CharAt(code, i) # "="

\* C9: when the source text holds a character that matches no lexical pattern,
\* no phase is ever entered and the run ends with the lexer's SyntaxError, not
\* with a ParseError, also when the text before that character has a structural
\* error.
C9_LexicalFailureFirst ==
    HasUnmatchable =>
        /\ \A k \in Phases : par[k].st = "idle"
        /\ pc \in {"lex", "done"}
        /\ pc = "done" => result.kind = "SyntaxError"

\* the run on `int ( {\n  x ! }` ended at the '!' of line 2
C9_Witness ==
    /\ pc = "done" /\ code = ExBadCharAfterError
    /\ result.kind = "SyntaxError" /\ result.value = "!" /\ result.line = 2

\* the interpreter always takes the next step of the run and of the harness
SpecAloneFair == SpecAlone /\ WF_vars(NextAlone)

\* C10: every run ends: lexing either fails or returns the token list, and over
\* that list run_gle returns and each of phases 1, 2 and 3, run on its own,
\* returns or raises after finitely many steps.
C10_Terminates == <>(pc = "done" /\ (result.kind = "SyntaxError" \/ AloneDone))

\* every phase ended, phase 2 after its skip loop ran into the EOF token and
\* phase 3 after its block loop did
C10_Witness ==
    /\ AloneDone
    /\ par[2].st = "err" /\ par[2].err.message = "Missing ';' after return statement."
    /\ Cur(par[2]).type = "EOF"
    /\ par[3].st = "err" /\ Cur(par[3]).type = "EOF"

\* the parser objects that were constructed
Constructed == {k \in Phases : par[k].st # "idle"}

\* the index of the final EOF token
LastIndex == Len(tokens) - 1

\* C11: the cursor of every constructed parser satisfies 0 <= pos < len(tokens);
\* advance() at the index of the final EOF token leaves pos where it is; and no
\* step of a running phase decreases its pos.
C11_CursorInvariant ==
    /\ [](\A k \in Constructed :
             /\ 0 <= par[k].pos /\ par[k].pos < Len(tokens)
             /\ par[k].pos = LastIndex => advance(par[k]).pos = par[k].pos
             /\ par[k].pos < LastIndex => advance(par[k]).pos = par[k].pos + 1)
    /\ [][\A k \in Phases : par[k].st = "run" => par'[k].pos >= par[k].pos]_vars

\* phase 2, run on its own over an input of several tokens, stopped with its
\* cursor on the final EOF token
C11_Witness ==
    /\ alone >= 2 /\ Finished(2)
    /\ LastIndex > 5
    /\ par[2].pos = LastIndex /\ Cur(par[2]).type = "EOF"

\* the token kinds lex produces
Kinds ==
    {"NUMBER", "ID", "STRING", "OP", "LPAREN", "RPAREN", "LBRACE", "RBRACE", "SEMICOL",
     "COMMA", "EOF", "INT", "IF", "ELSE", "WHILE", "RETURN"}

\* the messages no phase raises other than through expect()
ExpectMessages ==
    {"Expected 'int' at start of function definition.", "Expected function name after 'int'.",
     "Expected '(' after function name.", "Expected ')' after '('.",
     "Expected ')' to close parameter list.", "Expected '{' to start function body.",
     "Expected '{' to start a block.", "Expected '}' to close the block.",
     "Missing ';' after expression.", "Missing ';' after return value.",
     "Expected ')' after expression.", "Expected ')' after if condition.",
     "Expected ')' after while condition."}

\* the messages phase 2 raises when match("LPAREN") returned false
NoLparenMessages == {"Expected '(' after 'if'.", "Expected '(' after 'while'."}

\* what expect(ttype, phase, message, hint) does to the running parser p
ExpectEffect(p, ttype, phase, message, hint) ==
    LET q == expect(p, ttype, phase, message, hint)
    IN  IF Cur(p).type = ttype
        THEN q = advance(p)
        ELSE /\ q.st = "err"
             /\ q.pos = p.pos
             /\ q.err = ParseError(message, Cur(p).line, Cur(p).column, phase, hint)

\* what match(*types) does to the running parser p
MatchEffect(p, types) ==
    LET q == match(p, types)
    IN  IF matches(p, types)
        THEN /\ q = advance(p)
             /\ q.pos = IF p.pos = LastIndex THEN p.pos ELSE p.pos + 1
        ELSE q = p

\* C12: expect() on a token of the wanted kind moves the cursor as advance()
\* does, and otherwise raises a ParseError with the arguments and the position
\* of the current token, the cursor staying where it is; match() leaves the
\* cursor alone when it returns false and advances by one token when it returns
\* true.  In the runs: a diagnostic raised through expect() is placed at the
\* token the cursor is left on, phase 2's "Expected '('" leaves the cursor on
\* the token right after the keyword, and its "Empty condition" is raised one
\* token after the '(' that match() consumed.
C12_ExpectAndMatch ==
    /\ \A k \in Phases : par[k].st = "run" =>
          /\ \A ttype \in Kinds :
                /\ ExpectEffect(par[k], ttype, "PHASE", "message", "hint")
                /\ ExpectEffect(par[k], ttype, "PHASE", "message", None)
          /\ \A a, b \in Kinds : MatchEffect(par[k], {a, b})
    /\ \A k \in Phases :
          /\ par[k].st = "err" /\ par[k].err.message \in ExpectMessages =>
                ErrPos(par[k].err) = PosOf(Cur(par[k]))
          /\ par[k].st = "err" /\ par[k].err.message \in NoLparenMessages =>
                IF k = 2
                THEN /\ par[k].pos >= 1
                     /\ Cur(par[k]).type # "LPAREN"
                     /\ TokAt(par[k].pos - 1).type \in {"IF", "WHILE"}
                     /\ ErrPos(par[k].err) = PosOf(TokAt(par[k].pos - 1))
                ELSE ErrPos(par[k].err) = PosOf(Cur(par[k]))
          /\ par[k].st = "err" /\ par[k].err.message \in EmptyConditionMessages =>
                /\ par[k].pos >= 2
                /\ TokAt(par[k].pos - 1).type = "LPAREN"
                /\ TokAt(par[k].pos - 2).type \in {"IF", "WHILE"}
                /\ ErrPos(par[k].err) = PosOf(Cur(par[k]))

\* over an `if` without '(' phase 3 alone raised through expect(), at the token
\* after the keyword, and phase 2 alone raised after match("LPAREN") returned
\* false, at the keyword, both with the cursor on the token after the keyword
C12_Witness ==
    /\ AloneDone
    /\ par[2].st = "err" /\ par[2].err.message = "Expected '(' after 'if'."
    /\ par[3].st = "err" /\ par[3].err.message = "Expected '(' after 'if'."
    /\ par[2].pos = par[3].pos /\ par[2].pos < LastIndex
    /\ ErrPos(par[2].err) # ErrPos(par[3].err)

\* the token kinds that start a statement phase 2 recognises
StatementLeads == {"IF", "WHILE", "RETURN", "LBRACE"}

\* the first ';', '}' or EOF at or after token i (1-based)
StopAfter(i) ==
    CHOOSE j \in i..Len(tokens) :
        /\ tokens[j].type \in {"SEMICOL", "RBRACE", "EOF"}
        /\ \A m \in i..(j - 1) : tokens[m].type \notin {"SEMICOL", "RBRACE", "EOF"}

MissingSemicolonReturn == "Missing ';' after return statement."

\* phase 2 ended on a body whose first statement is none of if, while, return, block
OtherStatementFirst ==
    /\ Finished(2) /\ BodyStartsWith(<<>>) /\ Len(tokens) >= 6
    /\ tokens[6].type \notin StatementLeads \cup {"RBRACE", "EOF"}

\* phase 2 ended on a body whose first statement is a return without ';' before
\* the next '}' or the end of input
OpenReturnFirst ==
    /\ Finished(2) /\ BodyStartsWith(<<"RETURN">>)
    /\ tokens[StopAfter(7)].type # "SEMICOL"

\* C13: phase 2 skips a statement that starts with none of if, while, return, '{'
\* and has no ';' before the next '}' or the end of input without a diagnostic
\* of its own, stopping on that '}' so that the block closes (at the end of input
\* the only diagnostic is the block's missing '}'), whereas a `return` with no
\* ';' before the next '}' or the end of input always raises the LOCAL
\* "Missing ';' after return statement." diagnostic at the return token.
C13_TerminatorAsymmetry ==
    /\ [](/\ OtherStatementFirst /\ tokens[StopAfter(6)].type = "RBRACE" =>
                /\ par[2].pos >= StopAfter(6)
                /\ StopAfter(6) = LastIndex => par[2].st = "ok"
          /\ OtherStatementFirst /\ tokens[StopAfter(6)].type = "EOF" =>
                /\ par[2].st = "err" /\ par[2].pos = LastIndex
                /\ par[2].err.message = "Expected '}' to close the block."
          /\ OpenReturnFirst =>
                /\ par[2].st = "err" /\ par[2].err.phase = PHASE2
                /\ par[2].err.message = MissingSemicolonReturn
                /\ ErrPos(par[2].err) = PosOf(tokens[6])
          /\ par[2].st = "err" /\ par[2].err.message = MissingSemicolonReturn =>
                /\ Cur(par[2]).type \in {"RBRACE", "EOF"}
                /\ \E i \in 1..Len(tokens) :
                      tokens[i].type = "RETURN" /\ ErrPos(par[2].err) = PosOf(tokens[i]))
    /\ [][/\ At(2, "P2.parse_statement") /\ Cur(par[2]).type \notin StatementLeads =>
                /\ par'[2].st = "run" /\ par'[2].pos = par[2].pos
                /\ Top(par'[2]).lbl = "P2.skip_until_semicolon" /\ ~Top(par'[2]).required
          /\ At(2, "P2.parse_return") /\ Cur(advance(par[2])).type # "SEMICOL" =>
                /\ par'[2].st = "run" /\ par'[2].pos = par[2].pos + 1
                /\ Top(par'[2]).lbl = "P2.skip_until_semicolon" /\ Top(par'[2]).required
          /\ At(2, "P2.skip_until_semicolon") /\ Cur(par[2]).type \in {"RBRACE", "EOF"} =>
                IF Top(par[2]).required
                THEN /\ par'[2].st = "err" /\ par'[2].pos = par[2].pos
                     /\ par'[2].err.message = MissingSemicolonReturn
                     /\ par'[2].err.phase = PHASE2
                ELSE /\ par'[2].st = "run" /\ par'[2].pos = par[2].pos
                     /\ par'[2].stack = Tail(par[2].stack)
                     /\ Top(par'[2]).lbl = "P2.block_loop"]_vars

\* phase 2 alone accepted a body that starts with `x`, holds no ';' before its
\* '}' and is closed by it: the unterminated statement was passed over in silence
C13_Witness ==
    /\ alone >= 2 /\ OtherStatementFirst
    /\ tokens[StopAfter(6)].type = "RBRACE"
    /\ StopAfter(6) > 6
    /\ par[2].st = "ok"

\* the ')' that closes the '(' at token i (1-based), or 0 when there is none
MatchingRparen(i) ==
    LET D(n) == Depth("LPAREN", "RPAREN", n) - Depth("LPAREN", "RPAREN", i - 1)
        S == {j \in (i + 1)..Len(tokens) : D(j) = 0 /\ \A m \in i..(j - 1) : D(m) > 0}
    IN  IF S = {} THEN 0 ELSE CHOOSE j \in S : TRUE

\* phase 2 ended on a body whose first statement is `if (` or `while (`
ConditionFirst ==
    /\ Finished(2)
    /\ \E kw \in {"IF", "WHILE"} : BodyStartsWith(<<kw, "LPAREN">>)

\* phase 2 is in the depth-counted scan of a condition
InConditionScan == At(2, "P2.if_scan") \/ At(2, "P2.while_scan")

MatchingRbrace(i) ==
    LET D(n) == Depth("LBRACE", "RBRACE", n) - Depth("LBRACE", "RBRACE", i - 1)
        S == {j \in (i + 1)..Len(tokens) : D(j) = 0 /\ \A m \in i..(j - 1) : D(m) > 0}
    IN  IF S = {} THEN 0 ELSE CHOOSE j \in S : TRUE

\* the tokens from i on are `int` Identifier '(' ')' '{'
HeaderAt(i) ==
    /\ i + 4 <= Len(tokens)
    /\ <<tokens[i].type, tokens[i + 1].type, tokens[i + 2].type, tokens[i + 3].type,
         tokens[i + 4].type>> = <<"INT", "ID", "LPAREN", "RPAREN", "LBRACE">>

\* the tokens from i on are functions with brace-balanced bodies, then EOF
RECURSIVE FunctionsFrom(_)
FunctionsFrom(i) ==
    IF tokens[i].type = "EOF" THEN i = Len(tokens)
    ELSE /\ HeaderAt(i)
         /\ MatchingRbrace(i + 4) # 0
         /\ FunctionsFrom(MatchingRbrace(i + 4) + 1)

\* the first function has a token between its parentheses
HasParameters ==
    /\ Len(tokens) >= 4
    /\ <<tokens[1].type, tokens[2].type, tokens[3].type>> = <<"INT", "ID", "LPAREN">>
    /\ tokens[4].type # "RPAREN"

\* C15: phase 1 accepts exactly the token lists that are a possibly empty
\* sequence of functions `int` Identifier '(' ')' with a brace-balanced body,
\* then EOF, and every diagnostic it raises is tagged GLOBAL; a function with a
\* token between its parentheses is rejected by phase 1 at that token, and by
\* phases 2 and 3 run on their own as well.
C15_Phase1Grammar ==
    /\ Lexed /\ Finished(1) =>
          /\ par[1].st = "ok" <=> FunctionsFrom(1)
          /\ par[1].st = "err" => par[1].err.phase = PHASE1
    /\ Lexed /\ Finished(1) /\ HasParameters =>
          /\ par[1].st = "err" /\ par[1].err.message = "Expected ')' after '('."
          /\ ErrPos(par[1].err) = PosOf(tokens[4])
    /\ AloneDone /\ HasParameters =>
          /\ par[2].st = "err" /\ par[2].err.phase = PHASE2
          /\ ErrPos(par[2].err) = PosOf(tokens[4])
          /\ par[3].st = "err" /\ par[3].err.phase = PHASE3
          /\ ErrPos(par[3].err) = PosOf(tokens[4])

\* every phase ran on its own over `int f(int a) { }`, which all three rejected
C15_Witness ==
    /\ AloneDone /\ code = ExParams /\ HasParameters
    /\ \A k \in Phases : par[k].st = "err"

\* the EOF tokens of the token list
EofTokens == {i \in 1..Len(tokens) : tokens[i].type = "EOF"}

\* C16: after a successful lex the token list holds exactly one EOF token, the
\* last one, whose line is the last line the scan reached and whose column is
\* the one just past the last character, counted from the most recent newline.
C16_EofPosition ==
    Lexed =>
        /\ EofTokens = {Len(tokens)}
        /\ tokens[Len(tokens)].line = lx.line_num
        /\ tokens[Len(tokens)].column = Len(code) - lx.line_start + 1

\* C17: each phase has its own cursor, starting at index 0, over the one token
\* list, which no step of a phase changes; whatever the order in which the steps
\* of the three phases are taken, each phase ends as it does when run on its own
\* over the same tokens: accept, or the same diagnostic, with the same cursor.
C17_PhaseIndependence ==
    /\ [](/\ AloneDone /\ result.kind = "together" =>
                \A k \in Phases : Outcome(par[k]) = result.outcome[k]
          /\ pc = "together" => \A k \in Phases : par[k].st # "idle")
    /\ [][/\ pc # "lex" => tokens' = tokens
          /\ pc = "phase1" /\ pc' = "together" => \A k \in Phases : par'[k].pos = 0]_vars

\* the three phases ran side by side over `int main() { return }` and then each
\* on its own: phase 1 accepted, phases 2 and 3 raised
C17_Witness ==
    /\ AloneDone /\ result.kind = "together" /\ code = ExReturnNoSemi
    /\ result.outcome[1].st = "ok" /\ result.outcome[2].st = "err"
    /\ result.outcome[3].st = "err"

====
